---------------------------- MODULE Spec2Model ----------------------------
(***************************************************************************)
(* A model of the one-shot host-metrics sampler scrape_metrics: the rate   *)
(* tracker compute_requests_per_second over the state file, the stub       *)
(* status parser get_nginx_stub_status, the top-n process selection, and   *)
(* main's control flow.  The reference variant is                          *)
(* src/scrape_metrics_psutil_reduced.py.                                    *)
(*                                                                         *)
(* Times are whole clock ticks; a rate is kept as the exact fraction       *)
(* num/den that the code's float division diff / elapsed denotes.          *)
(***************************************************************************)
EXTENDS Integers, Sequences, FiniteSets, TLC

VARIABLES
    state_file,        \* content of STATE_FILE
    by_call,           \* TRUE iff state_file was last written by compute_requests_per_second
    prior_file,        \* content of STATE_FILE when the last call started
    prior_by_call,     \* by_call when the last call started
    current_requests,  \* argument of the last call
    now,               \* time.time() read by the last call
    elapsed,           \* local of the last call
    diff,              \* local of the last call
    rps,               \* value returned by the last call
    load_exc,          \* exception met while loading the file in the last call, or "none"
    outcome,           \* "none" | "returned" | "raised": how the last call ended
    text,              \* resp.text, a sequence of characters
    fetch,             \* "none" | "ok" | the exception requests.get / raise_for_status raised
    status,            \* <<active_connections, total_requests>> get_nginx_stub_status returned
    procs,             \* what psutil.process_iter yields, in enumeration order
    n,                 \* argument of the last top-n call
    top,               \* list the last top-n call returned
    padded,            \* that list after main's padding loop, <<>> outside main
    top_pc,            \* "idle" | "cpu" | "mem" | "main_cpu" | "main_mem": the last top-n call
    pc,                \* where main is: "idle", "top_cpu", "top_mem", "status", "rate",
                       \* "emit", "done", "aborted"
    start_time,        \* time.time() at the start of main
    cpu_usage,         \* get_system_cpu_usage(), in tenths of a percent
    mem_usage,         \* get_system_memory_usage(), in tenths of a percent
    top_cpu,           \* main's padded top-5 list by CPU
    top_mem,           \* main's padded top-5 list by memory
    appended,          \* lines this invocation appended to OUTPUT_CSV_FILE
    top_output,        \* what the top command printed, as the lines splitlines() gives
    cmd_pc,            \* "idle" | "cpu" | "mem" | "flat_cpu" | "flat_mem": the last step
                       \* of the top-command variant
    cmd_usage,         \* aggregate get_top_cpu_info / get_top_mem_info returned
    cmd_list,          \* list of (name, metric text) they returned
    cmd_exc,           \* exception that left them, or "none"
    cmd_fields,        \* main's top_cpu_fields / top_mem_fields, <<>> before
    race,              \* two overlapping calls of compute_requests_per_second: for
                       \* each, where it is and its locals
    race_store0,       \* content of STATE_FILE before either of them started
    race_overlap,      \* both loaded race_store0 before either opened the file to write
    race_dumps,        \* the two calls in the order their json.dump landed
    calls              \* log of the calls made one after another: counter, time,
                       \* returned rate, and how the counter was obtained

rate_vars == <<state_file, by_call, prior_file, prior_by_call, current_requests,
               now, elapsed, diff, rps, load_exc, outcome>>

status_vars == <<text, fetch, status>>

top_vars == <<procs, n, top, padded, top_pc>>

main_vars == <<pc, start_time, cpu_usage, mem_usage, top_cpu, top_mem, appended>>

cmd_vars == <<top_output, cmd_pc, cmd_usage, cmd_list, cmd_exc, cmd_fields>>

race_vars == <<race, race_store0, race_overlap, race_dumps>>

\* what the model keeps beside the reference variant's own flow
aux_vars == <<cmd_vars, race_vars, calls>>

vars == <<rate_vars, status_vars, top_vars, main_vars, aux_vars>>

\* nothing run yet in the top-command variant
CmdIdle ==
    /\ top_output = <<>>
    /\ cmd_pc = "idle"
    /\ cmd_usage = [num |-> 0, den |-> 1]
    /\ cmd_list = <<>>
    /\ cmd_exc = "none"
    /\ cmd_fields = <<>>

RaceProcs == {1, 2}

\* a call that has not started
NotStarted ==
    [pc |-> "idle", c |-> 0, t |-> 0, exc |-> "none", elapsed |-> 0, diff |-> 0,
     rps |-> [num |-> 0, den |-> 1]]

\* no overlapping calls
RaceIdle ==
    /\ race = [p \in RaceProcs |-> NotStarted]
    /\ race_store0 = [kind |-> "absent", last_requests |-> <<>>, last_time |-> <<>>]
    /\ race_overlap = FALSE
    /\ race_dumps = <<>>

LogIdle == calls = <<>>

AuxIdle == CmdIdle /\ RaceIdle /\ LogIdle

-----------------------------------------------------------------------------
(* Bounds *)

MaxCounter == 3
MaxTime == 3

Counters == (0 - 1) .. MaxCounter      \* int(parts[2]) may also be negative
Times == 0 .. MaxTime

-----------------------------------------------------------------------------
(* The state file.  A JSON object is kept with each field as an optional   *)
(* value: <<>> when the key is missing, <<v>> when present.                *)

FileOf(kind, lr, lt) == [kind |-> kind, last_requests |-> lr, last_time |-> lt]

Absent == FileOf("absent", <<>>, <<>>)
InvalidJson == FileOf("invalid_json", <<>>, <<>>)   \* empty, truncated, garbage text
NotObject == FileOf("not_object", <<>>, <<>>)       \* valid JSON that is no object: [], null
Unreadable == FileOf("unreadable", <<>>, <<>>)      \* open() is refused

Opt(S) == {<<>>} \cup {<<v>> : v \in S}

Objects == {FileOf("object", lr, lt) : lr \in Opt(Counters), lt \in Opt(Times)}

FileContents == {Absent, InvalidJson, NotObject, Unreadable} \cup Objects

JsonDumpCounterOnly(c, t) == FileOf("object", <<c>>, <<>>)

\* json.dump({"last_requests": current_requests, "last_time": now}, f)
json_dump(c, t) == FileOf("object", <<c>>, <<t>>)

\* os.path.isfile(STATE_FILE)
isfile(f) == f.kind # "absent"

\* the exception open / json.load / state.get end with, "none" when they succeed;
\* vanished: the file was removed between the isfile test and open
load_exception(f, vanished) ==
    IF vanished \/ f.kind = "absent" THEN "FileNotFoundError"
    ELSE CASE f.kind = "unreadable" -> "PermissionError"
           [] f.kind = "invalid_json" -> "JSONDecodeError"
           [] f.kind = "not_object" -> "AttributeError"
           [] OTHER -> "none"

\* except (json.JSONDecodeError, FileNotFoundError)
caught(exc) == exc \in {"JSONDecodeError", "FileNotFoundError"}

StateGetZeroDefault(field, default) == IF field = <<>> THEN 0 ELSE field[1]

\* state.get(key, default)
state_get(field, default) == IF field = <<>> THEN default ELSE field[1]

LastRequestsAlwaysZero(f, exc, c) == 0

last_requests_of(f, exc, c) ==
    IF exc = "none" THEN state_get(f.last_requests, 0) ELSE c

last_time_of(f, exc, t) ==
    IF exc = "none" THEN state_get(f.last_time, t) ELSE t

ElapsedNoClamp(t, last_time) == t - last_time

ElapsedAlwaysOne(t, last_time) == 1

\* elapsed = now - last_time if now > last_time else 1.0
Elapsed(t, last_time) == IF t > last_time THEN t - last_time ELSE 1

DiffNoClamp(c, last_requests) == c - last_requests

\* diff = current_requests - last_requests; if diff < 0: diff = 0
Diff(c, last_requests) ==
    IF c - last_requests < 0 THEN 0 ELSE c - last_requests

Ratio(p, q) == [num |-> p, den |-> q]

Zero == Ratio(0, 1)      \* the literal 0.0

CallResult(o, r, e, d, x, f) ==
    [outcome |-> o, rps |-> r, elapsed |-> e, diff |-> d, exc |-> x, file |-> f]

InitializeAsEmptyObject(c, t) ==
    CallResult("returned", Ratio(c, 1), 0, 0, "none", json_dump(c, t))

\* if not os.path.isfile(STATE_FILE): write {current_requests, now}; return 0.0
initialize_state(c, t) ==
    CallResult("returned", Zero, 0, 0, "none", json_dump(c, t))

ComputeKeepingBaseline(f, c, t, vanished) ==
    IF ~isfile(f)
    THEN initialize_state(c, t)
    ELSE LET lr == state_get(f.last_requests, 0)
             e == Elapsed(t, state_get(f.last_time, t))
         IN  CallResult("returned", Ratio(Diff(c, lr), e), e, Diff(c, lr), "none",
                        IF c < lr THEN f ELSE json_dump(c, t))

\* compute_requests_per_second(current_requests) run on file f at clock reading t
compute_requests_per_second(f, c, t, vanished) ==
    IF ~isfile(f)
    THEN initialize_state(c, t)
    ELSE LET exc == load_exception(f, vanished)
             lr == last_requests_of(f, exc, c)
             lt == last_time_of(f, exc, t)
             e == Elapsed(t, lt)
             d == Diff(c, lr)
         IN  IF exc # "none" /\ ~caught(exc)
             THEN CallResult("raised", Zero, 0, 0, exc, f)
             ELSE IF e = 0      \* rps = diff / elapsed raises ZeroDivisionError
                  THEN CallResult("raised", Zero, e, d, exc,
                                  IF vanished THEN Absent ELSE f)
                  ELSE CallResult("returned", Ratio(d, e), e, d, exc, json_dump(c, t))

-----------------------------------------------------------------------------
(* Text: a Python str is a sequence of one-character strings.              *)

WS == {" ", "\t", "\n", "\r"}                 \* what strip() and split() drop
Digits == <<"0", "1", "2", "3", "4", "5", "6", "7", "8", "9">>
DigitSet == {Digits[i] : i \in 1..10}

\* the least member of a non-empty set of indices
least(hits) == CHOOSE i \in hits : \A j \in hits : i <= j

\* the greatest member of a non-empty set of indices
greatest(hits) == CHOOSE i \in hits : \A j \in hits : j <= i

\* index of the first character of s at or after i that is not whitespace,
\* Len(s) + 1 if there is none
skip_ws(s, i) ==
    CHOOSE j \in i..(Len(s) + 1) :
        /\ j = Len(s) + 1 \/ s[j] \notin WS
        /\ \A k \in i..(j - 1) : s[k] \in WS

\* index just past the run of non-whitespace characters of s starting at i
run_end(s, i) ==
    CHOOSE j \in i..(Len(s) + 1) :
        /\ j = Len(s) + 1 \/ s[j] \in WS
        /\ \A k \in i..(j - 1) : s[k] \notin WS

\* number of whitespace characters s ends with
trailing_ws(s) ==
    CHOOSE j \in 0..Len(s) :
        /\ j = Len(s) \/ s[Len(s) - j] \notin WS
        /\ \A k \in 0..(j - 1) : s[Len(s) - k] \in WS

\* str.lstrip(): what follows the leading run of whitespace
lstrip(s) == SubSeq(s, skip_ws(s, 1), Len(s))

\* str.rstrip(): what precedes the trailing run of whitespace
rstrip(s) == SubSeq(s, 1, Len(s) - trailing_ws(s))

\* str.strip()
strip(s) == rstrip(lstrip(s))

\* str.split(sep) for a one-character sep: empty pieces are kept; piece k
\* lies between the (k-1)-th and the k-th occurrence of sep
split_on(s, sep) ==
    LET at == {i \in 1..Len(s) : s[i] = sep}
        nth(k) == IF k = 0 THEN 0
                  ELSE IF k > Cardinality(at) THEN Len(s) + 1
                  ELSE CHOOSE i \in at : Cardinality({j \in at : j < i}) = k - 1
    IN  [k \in 1..(Cardinality(at) + 1) |-> SubSeq(s, nth(k - 1) + 1, nth(k) - 1)]

\* length of the run of non-whitespace characters s starts with
token_len(s) == run_end(s, 1) - 1

\* str.split(): pieces between runs of whitespace, none of them empty
RECURSIVE split(_)
split(s) ==
    LET t == lstrip(s)
        k == token_len(t)
    IN  IF t = <<>> THEN <<>>
        ELSE <<SubSeq(t, 1, k)>> \o split(SubSeq(t, k + 1, Len(t)))

\* str.startswith(prefix)
startswith(s, prefix) ==
    Len(s) >= Len(prefix) /\ SubSeq(s, 1, Len(prefix)) = prefix

is_digits(s) == s # <<>> /\ \A i \in 1..Len(s) : s[i] \in DigitSet

\* int(tok) does not raise ValueError
is_int(tok) ==
    IF tok # <<>> /\ Head(tok) \in {"+", "-"} THEN is_digits(Tail(tok))
    ELSE is_digits(tok)

digit_val(ch) == (CHOOSE i \in 1..10 : Digits[i] = ch) - 1

RECURSIVE digits_val(_)
digits_val(s) ==
    IF s = <<>> THEN 0
    ELSE digits_val(SubSeq(s, 1, Len(s) - 1)) * 10 + digit_val(s[Len(s)])

\* int(tok) for a token is_int accepts
int(tok) ==
    IF Head(tok) = "-" THEN 0 - digits_val(Tail(tok))
    ELSE IF Head(tok) = "+" THEN digits_val(Tail(tok))
    ELSE digits_val(tok)

\* the literal "Active connections:"
Marker == <<"A", "c", "t", "i", "v", "e", " ", "c", "o", "n", "n", "e", "c",
            "t", "i", "o", "n", "s", ":">>

\* for line in lines: if line.startswith("Active connections:"): ...; break
active_connections(lines) ==
    LET hits == {i \in 1..Len(lines) : startswith(lines[i], Marker)}
    IN  IF hits = {} THEN 0
        ELSE LET first == CHOOSE i \in hits : \A j \in hits : i <= j
                 parts == split(lines[first])
             IN  IF Len(parts) < 3 THEN 0                 \* IndexError
                 ELSE IF is_int(parts[3]) THEN int(parts[3])
                 ELSE 0                                    \* ValueError

TotalFromFirstField(lines) ==
    LET parts == split(strip(lines[3]))
    IN  IF Len(parts) = 3 /\ is_int(parts[1]) THEN int(parts[1]) ELSE 0

\* parts = lines[2].strip().split(); if len(parts) == 3: int(parts[2])
total_requests(lines) ==
    LET parts == split(strip(lines[3]))
    IN  IF Len(parts) = 3 /\ is_int(parts[3]) THEN int(parts[3]) ELSE 0

FetchFailures == {"ConnectionError", "Timeout", "HTTPError"}
FetchOutcomes == {"ok"} \cup FetchFailures

FallbackMinusOne(f, body) ==
    IF f # "ok" THEN <<0, 0 - 1>>
    ELSE LET lines == split_on(strip(body), "\n")
         IN  IF Len(lines) < 3 THEN <<0, 0>>
             ELSE <<active_connections(lines), total_requests(lines)>>

\* get_nginx_stub_status(): f is how the fetch ended, body is resp.text
get_nginx_stub_status(f, body) ==
    IF f # "ok" THEN <<0, 0>>
    ELSE LET lines == split_on(strip(body), "\n")
         IN  IF Len(lines) < 3 THEN <<0, 0>>
             ELSE <<active_connections(lines), total_requests(lines)>>

StatusIdle ==
    /\ text = <<>>
    /\ fetch = "none"
    /\ status = <<0, 0>>

-----------------------------------------------------------------------------
(* Top-n selection.  A metric value is a whole number of tenths of a       *)
(* percent; a process name is a sequence of characters, <<>> when psutil   *)
(* gives None or "".  fail: the read of the metric fails for this process. *)

Proc(name, val, fail) == [name |-> name, val |-> val, fail |-> fail]
Sample(name, val) == [name |-> name, val |-> val]

\* ("-.", 0.0)
Sentinel == Sample(<<"-", ".">>, 0)

\* proc.info['name'] if proc.info['name'] else "-."
name_or_sentinel(name) == IF name # <<>> THEN name ELSE <<"-", ".">>

\* one pass of the loop of get_top_processes_by_cpu: cpu_percent(None) raises
\* NoSuchProcess, AccessDenied or ZombieProcess for a failing process
cpu_sample(p) ==
    IF p.fail THEN Sentinel ELSE Sample(name_or_sentinel(p.name), p.val)

\* one pass of the loop of get_top_processes_by_memory: process_iter has put
\* None in proc.info['memory_percent'] for a failing process
mem_sample(p) ==
    Sample(name_or_sentinel(p.name), IF p.fail \/ p.val = 0 THEN 0 ELSE p.val)

RECURSIVE AheadOfTies(_, _)
AheadOfTies(sorted, x) ==
    IF sorted # <<>> /\ Head(sorted).val > x.val THEN 1 + AheadOfTies(Tail(sorted), x)
    ELSE 0

\* where x goes in a list sorted by val descending: behind every entry whose
\* val is not smaller
RECURSIVE ahead(_, _)
ahead(sorted, x) ==
    IF sorted # <<>> /\ Head(sorted).val >= x.val THEN 1 + ahead(Tail(sorted), x)
    ELSE 0

Unsorted(samples) == samples

\* list.sort(key=lambda x: x[1], reverse=True): descending and stable
RECURSIVE sort_desc(_)
sort_desc(samples) ==
    IF samples = <<>> THEN <<>>
    ELSE LET k == Len(samples)
             done == sort_desc(SubSeq(samples, 1, k - 1))
             x == samples[k]
             a == ahead(done, x)
         IN  SubSeq(done, 1, a) \o <<x>> \o SubSeq(done, a + 1, Len(done))

\* processes[:n] for n >= 0
slice(l, k) == SubSeq(l, 1, IF k < Len(l) THEN k ELSE Len(l))

get_top_processes_by_cpu(ps, k) ==
    slice(sort_desc([i \in 1..Len(ps) |-> cpu_sample(ps[i])]), k)

get_top_processes_by_memory(ps, k) ==
    slice(sort_desc([i \in 1..Len(ps) |-> mem_sample(ps[i])]), k)

TopN == 5      \* main asks for the top 5

\* while len(top_cpu) < 5: top_cpu.append(("-.", 0.0))
RECURSIVE pad(_)
pad(l) == IF Len(l) < TopN THEN pad(Append(l, Sentinel)) ELSE l

TopIdle ==
    /\ procs = <<>>
    /\ n = 0
    /\ top = <<>>
    /\ padded = <<>>
    /\ top_pc = "idle"

-----------------------------------------------------------------------------
(* The record main writes.                                                 *)

\* str(k) for k >= 0
RECURSIVE nat_str(_)
nat_str(k) ==
    IF k < 10 THEN <<Digits[k + 1]>>
    ELSE nat_str(k \div 10) \o <<Digits[(k % 10) + 1]>>

\* str(k)
int_str(k) == IF k < 0 THEN <<"-">> \o nat_str(0 - k) ELSE nat_str(k)

\* f"{x:.2f}" for x = v tenths, v >= 0
fmt2_tenths(v) == nat_str(v \div 10) \o <<".", Digits[(v % 10) + 1], "0">>

\* f"{x:.2f}" for x = r.num / r.den >= 0: the nearest hundredth (no quotient
\* of the modelled range lies half-way between two hundredths)
fmt2_ratio(r) ==
    LET h == (200 * r.num + r.den) \div (2 * r.den)
    IN  nat_str(h \div 100) \o <<".", Digits[((h \div 10) % 10) + 1], Digits[(h % 10) + 1]>>

\* datetime.now().strftime("%Y-%m-%d %H:%M:%S"), t seconds into the epoch's
\* first minute
timestamp_str(t) ==
    <<"1", "9", "7", "0", "-", "0", "1", "-", "0", "1", " ", "0", "0", ":",
      "0", "0", ":", Digits[((t \div 10) % 10) + 1], Digits[(t % 10) + 1]>>

\* cpu_cols / mem_cols: name and f"{val:.2f}" of each entry
RECURSIVE proc_cols(_)
proc_cols(l) ==
    IF l = <<>> THEN <<>>
    ELSE <<Head(l).name, fmt2_tenths(Head(l).val)>> \o proc_cols(Tail(l))

\* row_data as main assembles it
row_data(ts, cpu, tcpu, mem, tmem, active, rate) ==
    <<timestamp_str(ts), fmt2_tenths(cpu)>> \o proc_cols(tcpu)
        \o <<fmt2_tenths(mem)>> \o proc_cols(tmem)
        \o <<int_str(active), fmt2_ratio(rate)>>

\* sep.join(fields)
RECURSIVE join(_, _)
join(fields, sep) ==
    IF fields = <<>> THEN <<>>
    ELSE IF Len(fields) = 1 THEN fields[1]
    ELSE fields[1] \o <<sep>> \o join(Tail(fields), sep)

MainIdle ==
    /\ pc = "idle"
    /\ start_time = 0
    /\ cpu_usage = 0
    /\ mem_usage = 0
    /\ top_cpu = <<>>
    /\ top_mem = <<>>
    /\ appended = <<>>

-----------------------------------------------------------------------------
(* The rate tracker alone: calls at arbitrary counters and clock readings, *)
(* and a state file that anything outside the program may rewrite.         *)

RateIdle ==
    /\ state_file = Absent
    /\ by_call = FALSE
    /\ prior_file = Absent
    /\ prior_by_call = FALSE
    /\ current_requests = 0
    /\ now = 0
    /\ elapsed = 0
    /\ diff = 0
    /\ rps = Zero
    /\ load_exc = "none"
    /\ outcome = "none"

Call(c, t, vanished) ==
    LET r == compute_requests_per_second(state_file, c, t, vanished)
    IN  /\ state_file' = r.file
        /\ by_call' = IF r.outcome = "returned" THEN TRUE
                      ELSE IF vanished THEN FALSE ELSE by_call
        /\ prior_file' = state_file
        /\ prior_by_call' = by_call
        /\ current_requests' = c
        /\ now' = t
        /\ elapsed' = r.elapsed
        /\ diff' = r.diff
        /\ rps' = r.rps
        /\ load_exc' = r.exc
        /\ outcome' = r.outcome

ComputeRate ==
    \E c \in Counters, t \in Times, vanished \in BOOLEAN :
        /\ vanished => isfile(state_file)
        /\ Call(c, t, vanished)
        /\ UNCHANGED <<aux_vars, status_vars, top_vars, main_vars>>

\* the file is changed or removed from outside between two calls
ExternalWrite ==
    \E f \in FileContents :
        /\ f # state_file
        /\ state_file' = f
        /\ by_call' = FALSE
        /\ outcome' = "none"
        /\ prior_file' = Absent
        /\ prior_by_call' = FALSE
        /\ current_requests' = 0
        /\ now' = 0
        /\ elapsed' = 0
        /\ diff' = 0
        /\ rps' = Zero
        /\ load_exc' = "none"
        /\ UNCHANGED <<aux_vars, status_vars, top_vars, main_vars>>

RateNext == ComputeRate \/ ExternalWrite

RateInit == RateIdle /\ StatusIdle /\ TopIdle /\ MainIdle /\ AuxIdle

SpecRate == RateInit /\ [][RateNext]_vars

-----------------------------------------------------------------------------
(* Properties of the rate tracker, under SpecRate.                         *)

Called == outcome # "none"

\* the last call loaded a JSON object holding both fields
LoadedPair ==
    /\ Called
    /\ load_exc = "none"
    /\ prior_file.kind = "object"
    /\ prior_file.last_requests # <<>>
    /\ prior_file.last_time # <<>>

c0 == prior_file.last_requests[1]
t0 == prior_file.last_time[1]

\* the returned rate equals p / q
RateIs(p, q) == rps.den > 0 /\ q > 0 /\ rps.num * q = p * rps.den

Max0(x) == IF x > 0 THEN x ELSE 0

\* the store holds exactly the two-field pair {c, t}
Pair(c, t) == [kind |-> "object", last_requests |-> <<c>>, last_time |-> <<t>>]

\* C1: a call that loads {c0, t0} and is made with counter c1 > c0 at time
\* t1 > t0 returns (c1 - c0) / (t1 - t0) and leaves the store holding {c1, t1}.
C1_MonotonicRate ==
    (LoadedPair /\ current_requests > c0 /\ now > t0) =>
        /\ outcome = "returned"
        /\ RateIs(current_requests - c0, now - t0)
        /\ state_file = Pair(current_requests, now)

\* C1 happens: the pair was written by the previous call, and the rate is a
\* proper fraction (counter up by 1 over more than one tick)
C1_Witness ==
    /\ LoadedPair /\ prior_by_call
    /\ current_requests = c0 + 1 /\ now > t0 + 1
    /\ outcome = "returned"

\* C2: with no state file, the call returns 0.0 for every counter and leaves
\* the store holding {c, now}.
C2_FreshStore ==
    (Called /\ prior_file = Absent) =>
        /\ outcome = "returned"
        /\ rps = Zero
        /\ state_file = Pair(current_requests, now)

C2_Witness ==
    /\ Called /\ prior_file = Absent
    /\ current_requests = MaxCounter /\ now > 0

\* C3: a call with a counter below the loaded one returns exactly 0.0, and no
\* call, whatever the counters and clock readings, returns a negative value.
C3_CounterReset ==
    /\ (outcome = "returned") => (rps.num >= 0 /\ rps.den > 0)
    /\ (/\ Called /\ load_exc = "none" /\ prior_file.kind = "object"
        /\ prior_file.last_requests # <<>>
        /\ current_requests < c0) => (outcome = "returned" /\ rps.num = 0)

\* a reset seen while the clock also went backwards
C3_Witness ==
    /\ LoadedPair
    /\ current_requests < c0 /\ now < t0
    /\ outcome = "returned"

\* C4: whenever the state file exists but is corrupt or unreadable the call
\* does not raise, returns 0.0 and overwrites the store with {c, now}.
C4_CorruptState ==
    (Called /\ prior_file.kind \in {"invalid_json", "not_object", "unreadable"}) =>
        /\ outcome = "returned"
        /\ rps.num = 0
        /\ state_file = Pair(current_requests, now)

\* C5: when a pair {c0, t0} is loaded and now - t0 <= 0, elapsed is 1.0 and
\* the call returns max(c - c0, 0) / 1.0; no call divides by zero or by a
\* negative number.
C5_ClockClamp ==
    /\ (LoadedPair /\ now - t0 <= 0) =>
           /\ outcome = "returned"
           /\ elapsed = 1
           /\ rps = Ratio(Max0(current_requests - c0), 1)
    /\ (Called /\ isfile(prior_file) /\ load_exc \in {"none", "JSONDecodeError",
                                                       "FileNotFoundError"}) =>
           (outcome = "returned" /\ elapsed > 0 /\ rps.den = elapsed)

\* the clock went backwards while the counter advanced
C5_Witness ==
    /\ LoadedPair
    /\ now < t0 /\ current_requests > c0
    /\ outcome = "returned"

\* C6: after every call that returns, whichever load path it took, the store
\* holds exactly {c, now of that call}.
C6_FullOverwrite ==
    (outcome = "returned") => state_file = Pair(current_requests, now)

\* a loaded pair that differs from the new one in both fields
C6_Witness ==
    /\ LoadedPair /\ outcome = "returned"
    /\ c0 # current_requests /\ t0 # now
    /\ state_file = Pair(current_requests, now)

-----------------------------------------------------------------------------
(* The status parser alone: one response body, fetched and parsed once.    *)

MaxLines == 4

\* lines a response body is made of
LineSet == {
    <<>>,
    Marker \o <<" ", "5">>,
    Marker \o <<" ", "x">>,
    Marker,
    <<" ">> \o Marker \o <<" ", "7">>,
    <<"s", "e", "r", "v", "e", "r", " ", "a", "c", "c", "e", "p", "t", "s">>,
    <<" ", "1", "0", " ", "1", "0", " ", "2", "5", " ">>,
    <<"1", " ", "2", " ", "x">>,
    <<"1", " ", "2", " ", "3", " ", "4">> }

RECURSIVE join_lines(_)
join_lines(ls) ==
    IF ls = <<>> THEN <<>>
    ELSE IF Len(ls) = 1 THEN ls[1]
    ELSE ls[1] \o <<"\n">> \o join_lines(Tail(ls))

Texts == {join_lines(ls) : ls \in UNION {[1..k -> LineSet] : k \in 0..MaxLines}}

StatusCall(f, body) ==
    /\ text' = body
    /\ fetch' = f
    /\ status' = get_nginx_stub_status(f, body)

StatusInit ==
    /\ text \in Texts
    /\ fetch = "none"
    /\ status = <<0, 0>>
    /\ RateIdle
    /\ TopIdle
    /\ MainIdle
    /\ AuxIdle

GetStatus ==
    /\ fetch = "none"
    /\ \E f \in FetchOutcomes : StatusCall(f, text)
    /\ UNCHANGED <<aux_vars, rate_vars, top_vars, main_vars>>

StatusNext == GetStatus

SpecStatus == StatusInit /\ [][StatusNext]_vars

-----------------------------------------------------------------------------
(* Properties of the status parser, under SpecStatus.                      *)

Parsed == fetch = "ok"

RawLines == split_on(text, "\n")                 \* the body as it arrived
StrippedLines == split_on(strip(text), "\n")     \* the body after strip()

Marked(ls) == {i \in 1..Len(ls) : startswith(ls[i], Marker)}
FirstMarked(ls) == CHOOSE i \in Marked(ls) : \A j \in Marked(ls) : i <= j

\* the line reads "Active connections: C" with an integer C
ActiveLine(l) ==
    /\ startswith(l, Marker)
    /\ Len(split(l)) = 3
    /\ is_int(split(l)[3])

\* the line is three whitespace-separated integers "A H T"
ThreeInts(l) == Len(split(l)) = 3 /\ \A i \in 1..3 : is_int(split(l)[i])

\* the expected shape: an "Active connections: C" line (the first line so
\* marked), and a third line "A H T"
Shape(ls) ==
    /\ Len(ls) >= 3
    /\ ThreeInts(ls[3])
    /\ Marked(ls) # {}
    /\ ActiveLine(ls[FirstMarked(ls)])

ShapeC(ls) == int(split(ls[FirstMarked(ls)])[3])
ShapeT(ls) == int(split(ls[3])[3])

\* C7 as claimed: every status text that contains an "Active connections: C"
\* line and whose third line from the top is "A H T" parses to (C, T).
C7_ParseSuccess_AsClaimed ==
    (Parsed /\ Shape(RawLines)) => status = <<ShapeC(RawLines), ShapeT(RawLines)>>

\* C7 amended: the lines are those of the text after leading and trailing
\* whitespace is stripped; such a text of the expected shape parses to (C, T).
C7_ParseSuccess ==
    (Parsed /\ Shape(StrippedLines)) =>
        status = <<ShapeC(StrippedLines), ShapeT(StrippedLines)>>

\* a body with a leading blank line whose stripped text has the shape
C7_Witness ==
    /\ Parsed
    /\ text # strip(text) /\ Head(text) = "\n"
    /\ Shape(StrippedLines)
    /\ status = <<5, 25>>

\* one of the listed deviations from the expected shape
Deviates(ls) ==
    \/ Len(ls) < 3
    \/ Marked(ls) = {}
    \/ Len(split(ls[3])) # 3
    \/ \E i \in 1..Len(split(ls[3])) : ~is_int(split(ls[3])[i])
    \/ ~ActiveLine(ls[FirstMarked(ls)])

\* C8: every status text that deviates from the expected shape (fewer than 3
\* lines, no "Active connections" line, a third line that is not exactly
\* three fields, a non-integer token) parses to (0, 0).
C8_ParseFailure ==
    (Parsed /\ Deviates(StrippedLines)) => status = <<0, 0>>

-----------------------------------------------------------------------------
(* Top-n selection alone: one enumeration of processes, one call.          *)

MaxProcs == 6
MaxN == 3

\* the processes an enumeration is made of
ProcSet == {
    Proc(<<"a">>, 1, FALSE),
    Proc(<<"b">>, 1, FALSE),
    Proc(<<>>, 2, FALSE),
    Proc(<<"c">>, 0, TRUE) }

ProcLists == UNION {[1..k -> ProcSet] : k \in 0..MaxProcs}

TopInit ==
    /\ procs \in ProcLists
    /\ n = 0
    /\ top = <<>>
    /\ padded = <<>>
    /\ top_pc = "idle"
    /\ RateIdle
    /\ StatusIdle
    /\ MainIdle
    /\ AuxIdle

\* get_top_processes_by_cpu(k) called on its own
CallTopCpu ==
    /\ top_pc = "idle"
    /\ \E k \in 0..MaxN :
        /\ n' = k
        /\ top' = get_top_processes_by_cpu(procs, k)
    /\ top_pc' = "cpu"
    /\ UNCHANGED <<aux_vars, procs, padded, rate_vars, status_vars, main_vars>>

\* get_top_processes_by_memory(k) called on its own
CallTopMem ==
    /\ top_pc = "idle"
    /\ \E k \in 0..MaxN :
        /\ n' = k
        /\ top' = get_top_processes_by_memory(procs, k)
    /\ top_pc' = "mem"
    /\ UNCHANGED <<aux_vars, procs, padded, rate_vars, status_vars, main_vars>>

\* main, step 4: top_cpu = get_top_processes_by_cpu(5), then the padding loop
MainTopCpu ==
    /\ top_pc = "idle"
    /\ n' = TopN
    /\ top' = get_top_processes_by_cpu(procs, TopN)
    /\ padded' = pad(top')
    /\ top_pc' = "main_cpu"
    /\ UNCHANGED <<aux_vars, procs, rate_vars, status_vars, main_vars>>

\* main, step 5: top_mem = get_top_processes_by_memory(5), then the padding loop
MainTopMem ==
    /\ top_pc = "idle"
    /\ n' = TopN
    /\ top' = get_top_processes_by_memory(procs, TopN)
    /\ padded' = pad(top')
    /\ top_pc' = "main_mem"
    /\ UNCHANGED <<aux_vars, procs, rate_vars, status_vars, main_vars>>

TopNext == CallTopCpu \/ CallTopMem \/ MainTopCpu \/ MainTopMem

SpecTop == TopInit /\ [][TopNext]_vars

-----------------------------------------------------------------------------
(* Properties of the top-n selection, under SpecTop.                       *)

TopCalled == top_pc # "idle"
InMain == top_pc \in {"main_cpu", "main_mem"}

NonIncreasing(l) == \A i \in 1..Len(l) - 1 : l[i].val >= l[i + 1].val

Min(a, b) == IF a < b THEN a ELSE b

\* C10 as claimed: the top-n operation returns exactly n entries, values
\* non-increasing, and every entry past the real ones is the sentinel.
C10_TopNShape_AsClaimed ==
    TopCalled =>
        /\ Len(top) = n
        /\ NonIncreasing(top)
        /\ \A i \in Len(procs) + 1 .. Len(top) : top[i] = Sentinel

\* C10 amended: get_top_processes_by_cpu / _by_memory return the first
\* min(n, number of enumerated processes) entries, values non-increasing, and
\* pad nothing; main, which asks for 5, pads the list to exactly 5 entries
\* with the sentinel ("-.", 0.0), and the padded list is still non-increasing.
C10_TopNShape ==
    /\ TopCalled =>
        /\ Len(top) = Min(n, Len(procs))
        /\ NonIncreasing(top)
    /\ InMain =>
        /\ Len(padded) = 5
        /\ NonIncreasing(padded)
        /\ \A i \in 1..Len(top) : padded[i] = top[i]
        /\ \A i \in Len(top) + 1 .. 5 : padded[i] = [name |-> <<"-", ".">>, val |-> 0]

\* main's call with two processes of different value, enumerated in rising
\* order: two real entries, sorted, and three padded ones
C10_Witness ==
    /\ top_pc = "main_cpu"
    /\ Len(procs) = 2 /\ procs[1].val < procs[2].val /\ ~procs[1].fail
    /\ Len(top) = 2 /\ top[1].val > top[2].val
    /\ Len(padded) = 5

-----------------------------------------------------------------------------
(* main: one invocation after another, each running its steps in order.    *)
(* Between invocations the state file may be rewritten from outside.       *)

\* the processes main may see: none, fewer than five, more than five; the
\* name of a process is whatever text its executable was given
MainProcs ==
    <<Proc(<<"n", "g", "i", "n", "x">>, 45, FALSE), Proc(<<"a">>, 1, FALSE),
      Proc(<<>>, 2, FALSE), Proc(<<"c">>, 0, TRUE), Proc(<<"b">>, 1, FALSE),
      Proc(<<"a">>, 1, FALSE), Proc(<<"b">>, 45, FALSE),
      Proc(<<"s", "h", ";", "x">>, 3, FALSE)>>

MainProcLists == {SubSeq(MainProcs, 1, k) : k \in {0, 1, 3, 8}}

\* psutil.cpu_percent(interval=1) and psutil.virtual_memory().percent, in tenths
CpuUsages == {0, 123}
MemUsages == {457}

\* bodies the status endpoint answers with
MainTexts == {
    join_lines(<<Marker \o <<" ", "5">>,
                 <<"s", "e", "r", "v", "e", "r", " ", "a", "c", "c", "e", "p", "t", "s">>,
                 <<" ", "1", "0", " ", "1", "0", " ", "2", "5", " ">>, <<>> >>),
    join_lines(<<Marker \o <<" ", "5">>,
                 <<"s", "e", "r", "v", "e", "r", " ", "a", "c", "c", "e", "p", "t", "s">>,
                 <<" ", "1", "0", " ", "1", "0", " ", "3", " ">>, <<>> >>),
    join_lines(<<Marker \o <<" ", "5">>, <<"1", " ", "2", " ", "x">> >>) }

Init ==
    /\ RateIdle
    /\ StatusIdle
    /\ TopIdle
    /\ MainIdle
    /\ AuxIdle

\* steps 1-3: timestamp, cpu_usage, mem_usage; the processes visible to this run
Start ==
    /\ pc = "idle"
    /\ \E t \in Times, cu \in CpuUsages, mu \in MemUsages, ps \in MainProcLists :
        /\ start_time' = t
        /\ cpu_usage' = cu
        /\ mem_usage' = mu
        /\ procs' = ps
    /\ pc' = "top_cpu"
    /\ UNCHANGED <<aux_vars, rate_vars, status_vars, n, top, padded, top_pc,
                   top_cpu, top_mem, appended>>

\* step 4
StepTopCpu ==
    /\ pc = "top_cpu"
    /\ n' = TopN
    /\ top' = get_top_processes_by_cpu(procs, TopN)
    /\ padded' = pad(top')
    /\ top_pc' = "main_cpu"
    /\ top_cpu' = padded'
    /\ pc' = "top_mem"
    /\ UNCHANGED <<aux_vars, rate_vars, status_vars, procs, start_time, cpu_usage,
                   mem_usage, top_mem, appended>>

\* step 5
StepTopMem ==
    /\ pc = "top_mem"
    /\ n' = TopN
    /\ top' = get_top_processes_by_memory(procs, TopN)
    /\ padded' = pad(top')
    /\ top_pc' = "main_mem"
    /\ top_mem' = padded'
    /\ pc' = "status"
    /\ UNCHANGED <<aux_vars, rate_vars, status_vars, procs, start_time, cpu_usage,
                   mem_usage, top_cpu, appended>>

\* step 6, first line: get_nginx_stub_status()
StepStatus ==
    /\ pc = "status"
    /\ \E f \in FetchOutcomes, body \in MainTexts :
        StatusCall(f, IF f = "ok" THEN body ELSE <<>>)
    /\ pc' = "rate"
    /\ UNCHANGED <<aux_vars, rate_vars, top_vars, start_time, cpu_usage, mem_usage,
                   top_cpu, top_mem, appended>>

\* step 6, second line: compute_requests_per_second(nginx_total_requests);
\* an exception leaving it ends main
StepRate ==
    /\ pc = "rate"
    /\ \E t \in Times, vanished \in BOOLEAN :
        /\ vanished => isfile(state_file)
        /\ Call(status[2], t, vanished)
    /\ pc' = IF outcome' = "raised" THEN "aborted" ELSE "emit"
    /\ UNCHANGED <<aux_vars, status_vars, top_vars, start_time, cpu_usage, mem_usage,
                   top_cpu, top_mem, appended>>

\* csv_line = ";".join(row_data), appended to OUTPUT_CSV_FILE
StepEmit ==
    /\ pc = "emit"
    /\ appended' = Append(appended,
                          join(row_data(start_time, cpu_usage, top_cpu, mem_usage,
                                        top_mem, status[1], rps), ";"))
    /\ pc' = "done"
    /\ UNCHANGED <<aux_vars, rate_vars, status_vars, top_vars, start_time, cpu_usage,
                   mem_usage, top_cpu, top_mem>>

\* the process exits; the next invocation finds only the state file
Exit ==
    /\ pc \in {"done", "aborted"}
    /\ UNCHANGED <<aux_vars, state_file, by_call>>
    /\ prior_file' = Absent
    /\ prior_by_call' = FALSE
    /\ current_requests' = 0
    /\ now' = 0
    /\ elapsed' = 0
    /\ diff' = 0
    /\ rps' = Zero
    /\ load_exc' = "none"
    /\ outcome' = "none"
    /\ text' = <<>> /\ fetch' = "none" /\ status' = <<0, 0>>
    /\ procs' = <<>> /\ n' = 0 /\ top' = <<>> /\ padded' = <<>> /\ top_pc' = "idle"
    /\ pc' = "idle" /\ start_time' = 0 /\ cpu_usage' = 0 /\ mem_usage' = 0
    /\ top_cpu' = <<>> /\ top_mem' = <<>> /\ appended' = <<>>

\* the state file is changed from outside while no invocation runs
Tamper ==
    /\ pc = "idle"
    /\ \E f \in FileContents :
        /\ f # state_file
        /\ state_file' = f
    /\ by_call' = FALSE
    /\ UNCHANGED <<aux_vars, prior_file, prior_by_call, current_requests, now, elapsed,
                   diff, rps, load_exc, outcome, status_vars, top_vars, main_vars>>

Next ==
    \/ Start \/ StepTopCpu \/ StepTopMem \/ StepStatus \/ StepRate
    \/ StepEmit \/ Exit \/ Tamper

Spec == Init /\ [][Next]_vars

-----------------------------------------------------------------------------
(* Properties of main, under Spec.                                         *)

FetchFailed == fetch \in FetchFailures

\* C9: every failure of the status fetch makes get_nginx_stub_status return
\* (0, 0); the failure is not propagated, and the invocation goes on to
\* compute the rate and emits its record.
C9_SourceUnavailable ==
    /\ FetchFailed => (status = <<0, 0>> /\ pc \in {"rate", "emit", "done", "aborted"})
    /\ (FetchFailed /\ pc \in {"done", "aborted"}) =>
           (pc = "done" /\ outcome = "returned" /\ Len(appended) = 1)

-----------------------------------------------------------------------------
(* The record an invocation emits.                                         *)

Completed == pc = "done"

\* the fields a reader of the emitted line gets by splitting it on ";"
EmittedFields == split_on(appended[Len(appended)], ";")

\* C11: every invocation that completes has emitted exactly one record, and
\* that record split on ";" has exactly 25 fields, whatever processes were
\* observed and whatever their names.
C11_RecordFieldCount ==
    Completed => (Len(appended) = 1 /\ Len(EmittedFields) = 25)

-----------------------------------------------------------------------------
(* The top-command variant (src/t_scrape_metrics_top.py): the process      *)
(* table and the summary lines are parsed from the text top prints.        *)

\* str.split(None, k): at most k splits; what is left after the k-th piece
\* is the last piece, its inner and trailing whitespace kept
RECURSIVE split_max(_, _)
split_max(s, k) ==
    LET t == lstrip(s)
        len == token_len(t)
    IN  IF t = <<>> THEN <<>>
        ELSE IF k = 0 THEN <<t>>
        ELSE <<SubSeq(t, 1, len)>> \o split_max(SubSeq(t, len + 1, Len(t)), k - 1)

\* s has the text pat at index i
has_at(s, i, pat) ==
    i >= 1 /\ i + Len(pat) - 1 <= Len(s) /\ SubSeq(s, i, i + Len(pat) - 1) = pat

\* a float as the exact fraction its decimal text denotes
Float(p, q) == [num |-> p, den |-> q]

RECURSIVE pow10(_)
pow10(k) == IF k = 0 THEN 1 ELSE 10 * pow10(k - 1)

unsigned(tok) == IF tok # <<>> /\ Head(tok) \in {"+", "-"} THEN Tail(tok) ELSE tok

\* float(tok) does not raise ValueError, for decimal text: an optional sign,
\* digits with at most one ".", at least one digit; surrounding whitespace
\* is ignored
is_float(tok) ==
    LET u == unsigned(strip(tok))
        dots == {i \in 1..Len(u) : u[i] = "."}
    IN  /\ Cardinality(dots) <= 1
        /\ \A i \in (1..Len(u)) \ dots : u[i] \in DigitSet
        /\ Len(u) > Cardinality(dots)

\* float(tok) for a text is_float accepts
float(tok) ==
    LET t == strip(tok)
        u == unsigned(t)
        dots == {i \in 1..Len(u) : u[i] = "."}
        d == IF dots = {} THEN Len(u) + 1 ELSE least(dots)
        whole == digits_val(SubSeq(u, 1, d - 1))
        frac == SubSeq(u, d + 1, Len(u))
        mag == whole * pow10(Len(frac)) + digits_val(frac)
    IN  Float(IF Head(t) = "-" THEN 0 - mag ELSE mag, pow10(Len(frac)))

PidMarker == <<"P", "I", "D">>

\* if line.strip().startswith("PID")
is_header(line) == startswith(strip(line), PidMarker)

header_found(output) == \E i \in 1..Len(output) : is_header(output[i])

\* header_index, counted from 1: the first header line, the first line of
\* the output when no line is a header (header_index = 0 is never replaced)
header_index(output) ==
    IF header_found(output)
    THEN least({i \in 1..Len(output) : is_header(output[i])})
    ELSE 1

\* the lines the for loop looks at before its break
scanned(output) ==
    1..(IF header_found(output) THEN header_index(output) ELSE Len(output))

\* process_lines[:5]
process_rows(output) ==
    LET first == header_index(output) + 1
        last == IF first + 4 < Len(output) THEN first + 4 ELSE Len(output)
    IN  SubSeq(output, first, last)

\* the loop over process_lines[:5]: cols = line.split(None, 11); rows with
\* fewer than 12 columns are passed over; metric is the 0-based column taken
RECURSIVE row_samples(_, _)
row_samples(rows, metric) ==
    IF rows = <<>> THEN <<>>
    ELSE LET cols == split_max(Head(rows), 11)
         IN  (IF Len(cols) < 12 THEN <<>> ELSE << <<cols[12], cols[metric + 1]>> >>)
                 \o row_samples(Tail(rows), metric)

CpuMarker == <<"%", "C", "p", "u", "(", "s", ")", ":">>
UsMarker == <<"u", "s", ",">>

\* where the group of ^%Cpu\(s\):\s*(.*?)\s*us,.* starts in a stripped line
cpu_group_start(l) == skip_ws(l, Len(CpuMarker) + 1)

\* cpu_line_pattern.match(line.strip())
cpu_match(line) ==
    LET l == strip(line)
    IN  /\ startswith(l, CpuMarker)
        /\ \E u \in cpu_group_start(l)..Len(l) : has_at(l, u, UsMarker)

\* match_cpu.group(1): from the first non-blank after the colon up to the
\* blanks before the first "us,"
cpu_group(line) ==
    LET l == strip(line)
        g == cpu_group_start(l)
        u == least({i \in g..Len(l) : has_at(l, i, UsMarker)})
    IN  rstrip(SubSeq(l, g, u - 1))

\* try: cpu_usage = float(match_cpu.group(1)) except ValueError: 0.0
cpu_of_line(line) ==
    IF is_float(cpu_group(line)) THEN float(cpu_group(line)) ELSE Float(0, 1)

\* cpu_usage after the scan: set by the last scanned line that matches
cpu_aggregate(output) ==
    LET hits == {i \in scanned(output) : cpu_match(output[i])}
    IN  IF hits = {} THEN Float(0, 1) ELSE cpu_of_line(output[greatest(hits)])

MemMarker == <<"M", "i", "B", " ", "M", "e", "m">>
TotalWord == <<"t", "o", "t", "a", "l", ",">>
FreeWord == <<"f", "r", "e", "e", ",">>
UsedWord == <<"u", "s", "e", "d", ",">>
BuffWord == <<"b", "u", "f", "f", "/", "c", "a", "c", "h", "e">>

\* \s*(\S+)\s+word matched in l from index i: blanks, a run of non-blanks
\* (the group), at least one blank, then the word
mem_field(l, i, word) ==
    LET a == skip_ws(l, i)
        e == run_end(l, a)
        b == skip_ws(l, e)
    IN  [ok |-> a <= Len(l) /\ b > e /\ has_at(l, b, word),
         group |-> SubSeq(l, a, e - 1),
         next |-> b + Len(word)]

\* mem_line_pattern.match(line.strip()): <<>> when there is no match, or the
\* four groups total, free, used, buff/cache
mem_groups(line) ==
    LET l == strip(line)
        colon == skip_ws(l, Len(MemMarker) + 1)
        f1 == mem_field(l, colon + 1, TotalWord)
        f2 == mem_field(l, f1.next, FreeWord)
        f3 == mem_field(l, f2.next, UsedWord)
        f4 == mem_field(l, f3.next, BuffWord)
    IN  IF startswith(l, MemMarker) /\ has_at(l, colon, <<":">>)
           /\ f1.ok /\ f2.ok /\ f3.ok /\ f4.ok
        THEN <<f1.group, f2.group, f3.group, f4.group>>
        ELSE <<>>

mem_match(line) == mem_groups(line) # <<>>

\* the four float() calls raise no ValueError
mem_floats_ok(line) == \A k \in 1..4 : is_float(mem_groups(line)[k])

\* (used_mib / total_mib) raises ZeroDivisionError, which nothing catches
mem_divides_by_zero(line) ==
    mem_match(line) /\ mem_floats_ok(line) /\ float(mem_groups(line)[1]).num = 0

\* mem_usage = (used_mib / total_mib) * 100; except ValueError: 0.0
mem_of_line(line) ==
    IF mem_floats_ok(line)
    THEN LET total == float(mem_groups(line)[1])
             used == float(mem_groups(line)[3])
         IN  Float(100 * used.num * total.den, used.den * total.num)
    ELSE Float(0, 1)

\* mem_usage after the scan: set by the last scanned line that matches
mem_aggregate(output) ==
    LET hits == {i \in scanned(output) : mem_match(output[i])}
    IN  IF hits = {} THEN Float(0, 1) ELSE mem_of_line(output[greatest(hits)])

InfoResult(usage, list, exc) == [usage |-> usage, list |-> list, exc |-> exc]

\* get_top_cpu_info() on the output of top -o %CPU
get_top_cpu_info(output) ==
    InfoResult(cpu_aggregate(output), row_samples(process_rows(output), 8), "none")

\* get_top_mem_info() on the output of top -o %MEM
get_top_mem_info(output) ==
    IF \E i \in scanned(output) : mem_divides_by_zero(output[i])
    THEN InfoResult(Float(0, 1), <<>>, "ZeroDivisionError")
    ELSE InfoResult(mem_aggregate(output), row_samples(process_rows(output), 9), "none")

\* main: for i in range(5): the i-th pair, or "", "" when there is none
top_fields(list) ==
    [k \in 1..10 |->
        LET i == (k + 1) \div 2
        IN  IF i <= Len(list) THEN list[i][IF k % 2 = 1 THEN 1 ELSE 2] ELSE <<>>]

-----------------------------------------------------------------------------
(* The top-command variant alone: one output of top, one call, and the     *)
(* fields main makes of the list the call returned.                        *)

MaxRows == 6

\* summary lines top prints above the table: the usual ones, a machine
\* reporting no memory, a locale with decimal commas, another unit
SummaryFull ==
    <<
      <<"%", "C", "p", "u", "(", "s", ")", ":", " ", " ", "3", ".", "4",
        " ", "u", "s", ",", " ", " ", "1", ".", "2", " ", "s", "y">>,
      <<"M", "i", "B", " ", "M", "e", "m", " ", ":", " ", " ", "2", "0",
        "0", ".", "0", " ", "t", "o", "t", "a", "l", ",", " ", " ", "1",
        "0", "0", ".", "0", " ", "f", "r", "e", "e", ",", " ", " ", " ",
        "5", "0", ".", "0", " ", "u", "s", "e", "d", ",", " ", " ", " ",
        "5", "0", ".", "0", " ", "b", "u", "f", "f", "/", "c", "a", "c",
        "h", "e">>
    >>

SummaryZeroTotal ==
    <<
      <<"%", "C", "p", "u", "(", "s", ")", ":", " ", "x", " ", "u", "s",
        ",">>,
      <<"M", "i", "B", " ", "M", "e", "m", " ", ":", " ", "0", ".", "0",
        " ", "t", "o", "t", "a", "l", ",", " ", "0", ".", "0", " ", "f",
        "r", "e", "e", ",", " ", "0", ".", "0", " ", "u", "s", "e", "d",
        ",", " ", "0", ".", "0", " ", "b", "u", "f", "f", "/", "c", "a",
        "c", "h", "e">>
    >>

SummaryComma ==
    <<
      <<"M", "i", "B", " ", "M", "e", "m", " ", ":", " ", "2", "0", "0",
        ",", "0", " ", "t", "o", "t", "a", "l", ",", " ", "1", " ", "f",
        "r", "e", "e", ",", " ", "5", "0", ".", "0", " ", "u", "s", "e",
        "d", ",", " ", "1", " ", "b", "u", "f", "f", "/", "c", "a", "c",
        "h", "e">>
    >>

SummaryKiB ==
    <<
      <<"K", "i", "B", " ", "M", "e", "m", " ", ":", " ", "2", "0", "0",
        ".", "0", " ", "t", "o", "t", "a", "l", ",", " ", "1", "0", "0",
        ".", "0", " ", "f", "r", "e", "e", ",", " ", "5", "0", ".", "0",
        " ", "u", "s", "e", "d", ",", " ", "5", "0", ".", "0", " ", "b",
        "u", "f", "f", "/", "c", "a", "c", "h", "e">>
    >>

RowNginx ==
    <<" ", " ", "1", " ", "r", "o", "o", "t", " ", "2", "0", " ", "0", " ",
      "1", " ", "1", " ", "1", " ", "S", " ", "4", ".", "5", " ", "1", ".",
      "0", " ", "0", ":", "0", "1", " ", "n", "g", "i", "n", "x">>

RowShell ==
    <<"2", " ", "w", "w", "w", " ", "2", "0", " ", "0", " ", "1", " ", "1",
      " ", "1", " ", "S", " ", "2", ".", "0", " ", "3", ".", "0", " ", "0",
      ":", "0", "2", " ", "s", "h", " ", " ", "-", "c", " ", "a", ";", " ",
      "b", " ">>

RowShort ==
    <<"3", " ", "r", "o", "o", "t", " ", "2", "0", " ", "0", " ", "1", " ",
      "1", " ", "1", " ", "S", " ", "0", ".", "0", " ", "0", ".", "0", " ",
      "0", ":", "0", "0">>

HeaderLine ==
    <<" ", " ", " ", " ", "P", "I", "D", " ", "U", "S", "E", "R", " ", "P",
      "R", " ", "N", "I", " ", "V", "I", "R", "T", " ", "R", "E", "S", " ",
      "S", "H", "R", " ", "S", " ", "%", "C", "P", "U", " ", "%", "M", "E",
      "M", " ", "T", "I", "M", "E", "+", " ", "C", "O", "M", "M", "A", "N",
      "D">>

Summaries == {<<>>, SummaryFull, SummaryZeroTotal, SummaryComma, SummaryKiB}

\* rows of the table: a plain one, a command line with blanks and a ";" in
\* it, a row cut short of its COMMAND column
RowSet == {RowNginx, RowShell, RowShort}

RowLists == UNION {[1..k -> RowSet] : k \in 0..MaxRows}

TopOutputs ==
    {s \o h \o r : s \in Summaries, h \in {<<>>, <<HeaderLine>>}, r \in RowLists}

CmdInit ==
    /\ top_output \in TopOutputs
    /\ cmd_pc = "idle"
    /\ cmd_usage = Float(0, 1)
    /\ cmd_list = <<>>
    /\ cmd_exc = "none"
    /\ cmd_fields = <<>>
    /\ RaceIdle
    /\ LogIdle
    /\ RateIdle
    /\ StatusIdle
    /\ TopIdle
    /\ MainIdle

InfoCall(r, at) ==
    /\ cmd_usage' = r.usage
    /\ cmd_list' = r.list
    /\ cmd_exc' = r.exc
    /\ cmd_pc' = at
    /\ UNCHANGED <<race_vars, calls, top_output, cmd_fields, rate_vars, status_vars, top_vars, main_vars>>

\* cpu_info = get_top_cpu_info()
GetTopCpuInfo ==
    /\ cmd_pc = "idle"
    /\ InfoCall(get_top_cpu_info(top_output), "cpu")

\* mem_info = get_top_mem_info()
GetTopMemInfo ==
    /\ cmd_pc = "idle"
    /\ InfoCall(get_top_mem_info(top_output), "mem")

\* main's loop building top_cpu_fields
FlattenCpu ==
    /\ cmd_pc = "cpu"
    /\ cmd_fields' = top_fields(cmd_list)
    /\ cmd_pc' = "flat_cpu"
    /\ UNCHANGED <<race_vars, calls, top_output, cmd_usage, cmd_list, cmd_exc, rate_vars, status_vars,
                   top_vars, main_vars>>

\* main's loop building top_mem_fields; not reached when get_top_mem_info raised
FlattenMem ==
    /\ cmd_pc = "mem"
    /\ cmd_exc = "none"
    /\ cmd_fields' = top_fields(cmd_list)
    /\ cmd_pc' = "flat_mem"
    /\ UNCHANGED <<race_vars, calls, top_output, cmd_usage, cmd_list, cmd_exc, rate_vars, status_vars,
                   top_vars, main_vars>>

CmdNext == GetTopCpuInfo \/ GetTopMemInfo \/ FlattenCpu \/ FlattenMem

SpecCmd == CmdInit /\ [][CmdNext]_vars

-----------------------------------------------------------------------------
(* The slots of the record that no process fills.                          *)

Flattened == cmd_pc \in {"flat_cpu", "flat_mem"}

\* C12: whenever fewer than 5 processes were obtained for a metric, each
\* missing slot of the record is the pair "-." ; "0.00".
C12_SentinelSlots ==
    Flattened =>
        \A i \in (Len(cmd_list) + 1)..5 :
            /\ cmd_fields[2 * i - 1] = <<"-", ".">>
            /\ cmd_fields[2 * i] = <<"0", ".", "0", "0">>

-----------------------------------------------------------------------------
(* Two calls of compute_requests_per_second that overlap on one state      *)
(* file.  The code takes no lock: the isfile test, the load, the open for  *)
(* writing (which truncates) and the dump are separate steps of each call, *)
(* and the steps of the two calls interleave freely.                       *)

\* what the file may hold before the two calls: nothing, or a pair
RaceStores ==
    {Absent} \cup {json_dump(c, t) : c \in 0..MaxCounter, t \in Times}

\* open(STATE_FILE, 'w'): the file exists and is empty
truncated == InvalidJson

RaceDumpFirstWins(cur, c, t) ==
    IF cur.kind = "object" THEN {cur} ELSE {json_dump(c, t)}

\* what the file may hold once this call's json.dump has landed.  The call
\* writes from offset 0 of the file it truncated when it opened it; if the
\* other call's text has landed since, this text overlays it, and a longer
\* text underneath leaves its tail behind: no JSON
race_dump(cur, c, t) ==
    IF cur.kind = "object" THEN {json_dump(c, t), InvalidJson} ELSE {json_dump(c, t)}

RaceInit ==
    /\ state_file \in RaceStores
    /\ race_store0 = state_file
    /\ race = [p \in RaceProcs |-> NotStarted]
    /\ race_overlap = FALSE
    /\ race_dumps = <<>>
    /\ by_call = FALSE
    /\ prior_file = Absent
    /\ prior_by_call = FALSE
    /\ current_requests = 0
    /\ now = 0
    /\ elapsed = 0
    /\ diff = 0
    /\ rps = Zero
    /\ load_exc = "none"
    /\ outcome = "none"
    /\ CmdIdle
    /\ LogIdle
    /\ StatusIdle
    /\ TopIdle
    /\ MainIdle

\* what no step of the two calls touches
race_frame ==
    <<race_store0, by_call, prior_file, prior_by_call, current_requests, now, elapsed,
      diff, rps, load_exc, outcome, cmd_vars, calls, status_vars, top_vars, main_vars>>

\* now = time.time(); if not os.path.isfile(STATE_FILE)
RaceBegin(p) ==
    /\ race[p].pc = "idle"
    /\ \E c \in 0..MaxCounter, t \in Times :
        race' = [race EXCEPT ![p] =
                    [@ EXCEPT !.c = c, !.t = t,
                              !.pc = IF isfile(state_file) THEN "load" ELSE "init_open"]]
    /\ UNCHANGED <<state_file, race_overlap, race_dumps, race_frame>>

\* first branch: with open(STATE_FILE, 'w') as f
RaceInitOpen(p) ==
    /\ race[p].pc = "init_open"
    /\ state_file' = truncated
    /\ race' = [race EXCEPT ![p].pc = "init_dump"]
    /\ UNCHANGED <<race_overlap, race_dumps, race_frame>>

\* first branch: json.dump(...); return 0.0
RaceInitDump(p) ==
    /\ race[p].pc = "init_dump"
    /\ state_file' \in race_dump(state_file, race[p].c, race[p].t)
    /\ race' = [race EXCEPT ![p].pc = "done"]
    /\ race_dumps' = Append(race_dumps, p)
    /\ UNCHANGED <<race_overlap, race_frame>>

\* the try block that loads the state, and the arithmetic after it
RaceLoad(p) ==
    /\ race[p].pc = "load"
    /\ LET r == compute_requests_per_second(state_file, race[p].c, race[p].t, FALSE)
       IN  race' = [race EXCEPT ![p] =
                       [@ EXCEPT !.exc = r.exc, !.elapsed = r.elapsed, !.diff = r.diff,
                                 !.rps = r.rps, !.pc = "open_w"]]
    /\ race_overlap' =
          (race_overlap \/ (\E q \in RaceProcs \ {p} : race[q].pc = "open_w"
                                                       /\ state_file = race_store0))
    /\ UNCHANGED <<state_file, race_dumps, race_frame>>

\* with open(STATE_FILE, 'w') as f
RaceOpenW(p) ==
    /\ race[p].pc = "open_w"
    /\ state_file' = truncated
    /\ race' = [race EXCEPT ![p].pc = "dump"]
    /\ UNCHANGED <<race_overlap, race_dumps, race_frame>>

\* json.dump(...); return rps
RaceDump(p) ==
    /\ race[p].pc = "dump"
    /\ state_file' \in race_dump(state_file, race[p].c, race[p].t)
    /\ race' = [race EXCEPT ![p].pc = "done"]
    /\ race_dumps' = Append(race_dumps, p)
    /\ UNCHANGED <<race_overlap, race_frame>>

RaceStep(p) ==
    \/ RaceBegin(p) \/ RaceInitOpen(p) \/ RaceInitDump(p)
    \/ RaceLoad(p) \/ RaceOpenW(p) \/ RaceDump(p)

RaceNext == \E p \in RaceProcs : RaceStep(p)

SpecRace == RaceInit /\ [][RaceNext]_vars

RaceDone == \A p \in RaceProcs : race[p].pc = "done"

\* both calls loaded the pair the file held before either opened it to write
Overlapped == RaceDone /\ race_overlap /\ race_store0.kind = "object"

first_writer == race_dumps[1]
last_writer == race_dumps[2]

\* the rate the call of the last writer returns when the two calls are run
\* one after the other in the order they wrote
sequential_rate ==
    compute_requests_per_second(Pair(race[first_writer].c, race[first_writer].t),
                                race[last_writer].c, race[last_writer].t, FALSE).rps

SameRate(a, b) == a.num * b.den = b.num * a.den

\* C13: two overlapping calls take no lock and can both load the same prior
\* pair before either writes.  Then each rate is computed against that prior
\* pair, the first writer's pair is overwritten by the last writer's (or the
\* file is left holding no JSON), and the last writer never saw it.
C13_LostUpdate ==
    Overlapped =>
        /\ \A p \in RaceProcs :
              /\ race[p].exc = "none"
              /\ race[p].diff = Max0(race[p].c - race_store0.last_requests[1])
              /\ race[p].elapsed =
                    (IF race[p].t > race_store0.last_time[1]
                     THEN race[p].t - race_store0.last_time[1] ELSE 1)
              /\ race[p].rps.num * race[p].elapsed = race[p].diff * race[p].rps.den
        /\ state_file \in {Pair(race[last_writer].c, race[last_writer].t), InvalidJson}

\* prior pair {0, 0}; the first writer read counter 2 at time 1, the last
\* writer counter 3 at time 3: it reports 3/3 where, run after the other
\* call, it reports 1/2, and the first writer's pair is gone
C13_Witness ==
    /\ Overlapped
    /\ race_store0 = Pair(0, 0)
    /\ race[first_writer].c = 2 /\ race[first_writer].t = 1
    /\ race[last_writer].c = 3 /\ race[last_writer].t = 3
    /\ state_file = Pair(3, 3)
    /\ ~SameRate(race[last_writer].rps, sequential_rate)

-----------------------------------------------------------------------------
(* Order among equal values.                                               *)

\* the samples the last top-n call collected, in enumeration order
Collected ==
    [i \in 1..Len(procs) |->
        IF top_pc \in {"cpu", "main_cpu"} THEN cpu_sample(procs[i])
        ELSE mem_sample(procs[i])]

\* the entries of l whose value is v, in the order l has them
RECURSIVE WithValue(_, _)
WithValue(l, v) ==
    IF l = <<>> THEN <<>>
    ELSE (IF Head(l).val = v THEN <<Head(l)>> ELSE <<>>) \o WithValue(Tail(l), v)

ValuesOf(l) == {l[i].val : i \in 1..Len(l)}

\* C14: in the top-n result, samples of equal metric value keep the relative
\* order the enumeration produced them in: for each value, the entries of the
\* result with that value are the first ones collected with that value, in
\* the order collected.
C14_StableTies ==
    TopCalled =>
        \A v \in ValuesOf(Collected) \cup ValuesOf(top) :
            LET got == WithValue(top, v)
                all == WithValue(Collected, v)
            IN  Len(got) <= Len(all) /\ got = SubSeq(all, 1, Len(got))

\* b and a, both at 0.1, enumerated b first and behind them a larger one:
\* the top 3 has the larger one first, then b, then a
C14_Witness ==
    /\ top_pc = "cpu"
    /\ n = 3
    /\ Len(procs) = 3
    /\ procs[1] = Proc(<<"b">>, 1, FALSE)
    /\ procs[2] = Proc(<<"a">>, 1, FALSE)
    /\ procs[3].val = 2
    /\ top[2].name = <<"b">> /\ top[3].name = <<"a">>

-----------------------------------------------------------------------------
(* The psutil variant whose process loop keeps p.info as it is              *)
(* (get_metrics_psutil.py).  process_iter fills an attribute it was refused *)
(* with None; fail marks such a process.                                    *)

\* f"{x:.1f}" for x = v / 10
fmt1_tenths(v) == nat_str(v \div 10) \o <<".", Digits[(v % 10) + 1]>>

\* the loop over process_iter: every info is appended, nothing is replaced
ps_infos(ps) == [i \in 1..Len(ps) |-> Sample(ps[i].name, IF ps[i].fail THEN -1 ELSE ps[i].val)]

\* the metric of an info is None
is_none(info) == info.val = -1

\* procs.sort(key=lambda x: x['cpu_percent'], reverse=True) compares every key
\* with another one as soon as there are two: None against anything is a
\* TypeError
sort_raises(infos) == Len(infos) >= 2 /\ \E i \in 1..Len(infos) : is_none(infos[i])

\* f"{proc['cpu_percent']:.1f}" of None is a TypeError
format_raises(infos) == \E i \in 1..Len(infos) : is_none(infos[i])

\* (cmd, f"{value:.1f}") for each of procs[:5]
ps_pairs(infos) == [i \in 1..Len(infos) |-> <<infos[i].name, fmt1_tenths(infos[i].val)>>]

\* get_top_cpu_info() / get_top_mem_info() of the variant, usage being what
\* psutil reported for the whole system
ps_top_info(usage, ps) ==
    LET infos == ps_infos(ps)
    IN  IF sort_raises(infos) THEN InfoResult(usage, <<>>, "TypeError")
        ELSE LET first == slice(sort_desc(infos), TopN)
             IN  IF format_raises(first) THEN InfoResult(usage, <<>>, "TypeError")
                 ELSE InfoResult(usage, ps_pairs(first), "none")

PsInit ==
    /\ procs \in ProcLists
    /\ n = 0
    /\ top = <<>>
    /\ padded = <<>>
    /\ top_pc = "idle"
    /\ CmdIdle
    /\ RaceIdle
    /\ LogIdle
    /\ RateIdle
    /\ StatusIdle
    /\ MainIdle

\* cpu_info = get_top_cpu_info()
PsGetTopCpuInfo ==
    /\ cmd_pc = "idle"
    /\ \E u \in CpuUsages : InfoCall(ps_top_info(Float(u, 10), procs), "ps_cpu")

\* mem_info = get_top_mem_info()
PsGetTopMemInfo ==
    /\ cmd_pc = "idle"
    /\ \E u \in MemUsages : InfoCall(ps_top_info(Float(u, 10), procs), "ps_mem")

\* main's loops building top_cpu_fields / top_mem_fields, reached when the
\* call returned
PsFlatten ==
    /\ cmd_pc \in {"ps_cpu", "ps_mem"}
    /\ cmd_exc = "none"
    /\ cmd_fields' = top_fields(cmd_list)
    /\ cmd_pc' = "ps_flat"
    /\ UNCHANGED <<race_vars, calls, top_output, cmd_usage, cmd_list, cmd_exc, rate_vars, status_vars,
                   top_vars, main_vars>>

PsNext == PsGetTopCpuInfo \/ PsGetTopMemInfo \/ PsFlatten

SpecPs == PsInit /\ [][PsNext]_vars

-----------------------------------------------------------------------------
(* Processes whose read fails.                                             *)

PsCalled == cmd_pc \in {"ps_cpu", "ps_mem"}

\* C15: reading a process may fail for any subset of the processes; the top-n
\* call still returns, with a sample for each of the first 5 slots the
\* enumeration can fill.
C15_ReadFailure ==
    PsCalled =>
        /\ cmd_exc = "none"
        /\ Len(cmd_list) = Min(TopN, Len(procs))

-----------------------------------------------------------------------------
(* The rows of the process table.                                          *)

InfoCalled == cmd_pc \in {"cpu", "mem"}

\* the first whitespace-delimited token of a line, <<>> for a blank line
first_token(line) == LET l == lstrip(line) IN SubSeq(l, 1, token_len(l))

HeaderLines == {i \in 1..Len(top_output) : first_token(top_output[i]) = PidMarker}

\* where the k-th whitespace-delimited field of a line starts
RECURSIVE field_start(_, _)
field_start(line, k) ==
    IF k = 1 THEN skip_ws(line, 1)
    ELSE skip_ws(line, run_end(line, field_start(line, k - 1)))

\* the sample the claim has a row give: name from the 12th field to the end
\* of the row, metric the 9th field for CPU and the 10th for memory
row_as_claimed(row) ==
    <<SubSeq(row, field_start(row, 12), Len(row)),
      split(row)[IF cmd_pc = "cpu" THEN 9 ELSE 10]>>

RECURSIVE rows_as_claimed(_)
rows_as_claimed(rows) ==
    IF rows = <<>> THEN <<>>
    ELSE (IF Len(split(Head(rows))) >= 12 THEN <<row_as_claimed(Head(rows))>> ELSE <<>>)
             \o rows_as_claimed(Tail(rows))

\* the rows after the header, at most 5 of them
RowsRead ==
    LET h == least(HeaderLines)
    IN  SubSeq(top_output, h + 1, Min(h + 5, Len(top_output)))

\* C16: for an output with a header line (first token PID), the call returns,
\* in input order, one sample for each of the first 5 rows after the header
\* that has at least 12 fields, and nothing for a shorter row.
C16_TableRows ==
    (InfoCalled /\ HeaderLines # {}) => cmd_list = rows_as_claimed(RowsRead)

\* the rows are parsed as described by every call that returns
TableRowsOfReturned ==
    (InfoCalled /\ HeaderLines # {} /\ cmd_exc = "none") => cmd_list = rows_as_claimed(RowsRead)

-----------------------------------------------------------------------------
(* The memory aggregate.                                                   *)

\* a scanned line gives used and total with total not 0
usable(line) ==
    mem_match(line) /\ mem_floats_ok(line) /\ float(mem_groups(line)[1]).num # 0

Usable == \E i \in scanned(top_output) : usable(top_output[i])

\* C17: get_top_mem_info never raises; when no summary line of the output
\* gives a usable percentage the aggregate it returns is 0.0, next to the
\* per-process rows.
C17_MemAggregate ==
    cmd_pc = "mem" =>
        /\ cmd_exc = "none"
        /\ ~Usable => cmd_usage.num = 0

-----------------------------------------------------------------------------
(* Calls one after another: nothing but the program writes the state       *)
(* file, the clock does not go back, and every call is logged with what it *)
(* was given and what it returned.                                         *)

MaxCalls == 3

LogEntry(c, t, r, how) == [c |-> c, t |-> t, rps |-> r, how |-> how]

\* the clock readings a call can take after the calls made so far
LaterTimes == {t \in Times : calls = <<>> \/ t >= calls[Len(calls)].t}

\* how a run of main came by its counter: the failure of the fetch, "short"
\* for an answer of fewer than 3 lines, "ok"
run_kind(f, body) ==
    IF f = "ok" /\ Len(split_on(strip(body), "\n")) < 3 THEN "short" ELSE f

LogInit ==
    /\ RateIdle
    /\ StatusIdle
    /\ TopIdle
    /\ MainIdle
    /\ CmdIdle
    /\ RaceIdle
    /\ calls = <<>>

\* compute_requests_per_second(c) called with a counter of the caller's
LogCall ==
    /\ Len(calls) < MaxCalls
    /\ \E c \in Counters, t \in LaterTimes :
        /\ Call(c, t, FALSE)
        /\ calls' = Append(calls, LogEntry(c, t, rps', "direct"))
    /\ UNCHANGED <<cmd_vars, race_vars, status_vars, top_vars, main_vars>>

\* main, step 6: the counter is the one get_nginx_stub_status returned
LogRun ==
    /\ Len(calls) < MaxCalls
    /\ \E f \in FetchOutcomes, body \in MainTexts, t \in LaterTimes :
        /\ StatusCall(f, IF f = "ok" THEN body ELSE <<>>)
        /\ Call(status'[2], t, FALSE)
        /\ calls' = Append(calls, LogEntry(status'[2], t, rps', run_kind(f, body)))
    /\ UNCHANGED <<cmd_vars, race_vars, top_vars, main_vars>>

LogNext == LogCall \/ LogRun

SpecLog == LogInit /\ [][LogNext]_vars

-----------------------------------------------------------------------------
(* A counter that went down.                                               *)

\* the rate r is p / q
IsRatio(r, p, q) == r.num * q = p * r.den

\* call i saw the counter lower than the call before it left it
Decreased(i) == i \in 2..Len(calls) /\ calls[i].c < calls[i - 1].c

\* C18: the call that sees the counter go down (c1 < c0) returns 0.0 and
\* leaves c1 as the baseline; the next call, with c2 >= c1 after e > 0,
\* returns (c2 - c1) / e whatever the older, larger counter was.
C18_ResetOnce ==
    \A i \in 1..Len(calls) :
        Decreased(i) =>
            /\ calls[i].rps.num = 0
            /\ i = Len(calls) => state_file = FileOf("object", <<calls[i].c>>, <<calls[i].t>>)
            /\ (i < Len(calls) /\ calls[i + 1].c >= calls[i].c /\ calls[i + 1].t > calls[i].t)
                   => IsRatio(calls[i + 1].rps, calls[i + 1].c - calls[i].c,
                              calls[i + 1].t - calls[i].t)

\* 3 at time 0, then 1 at time 1 (reported 0), then 2 at time 3 (reported 1/2)
C18_Witness ==
    /\ Len(calls) = 3
    /\ calls[1].c = 3 /\ calls[2].c = 1 /\ calls[3].c = 2
    /\ calls[1].t = 0 /\ calls[2].t = 1 /\ calls[3].t = 3
    /\ calls[2].rps.num = 0
    /\ calls[3].rps = Ratio(1, 2)

-----------------------------------------------------------------------------
(* A run whose status read failed.                                         *)

\* run i got no counter from the status page
Failed(i) == calls[i].how \in FetchFailures \cup {"short"}

\* C19: a run whose fetch or parse failed calls compute_requests_per_second
\* with 0; on a store holding c0 > 0 that call returns 0.0 and leaves
\* last_requests = 0, and the next call, reading c >= c0 after e > 0,
\* reports c / e.
C19_FailedFetchBaseline ==
    \A i \in 2..Len(calls) :
        (Failed(i) /\ calls[i - 1].c > 0) =>
            /\ calls[i].c = 0
            /\ calls[i].rps.num = 0
            /\ i = Len(calls) => state_file.last_requests = <<0>>
            /\ (i < Len(calls) /\ calls[i + 1].c >= calls[i - 1].c /\ calls[i + 1].t > calls[i].t)
                   => IsRatio(calls[i + 1].rps, calls[i + 1].c, calls[i + 1].t - calls[i].t)

\* the page read as 3 at time 0, not reached at time 1, read as 25 at time 3:
\* the last run reports 25/2, where 22 requests came in over 3 seconds
C19_Witness ==
    /\ Len(calls) = 3
    /\ calls[1].how = "ok" /\ calls[1].c = 3 /\ calls[1].t = 0
    /\ calls[2].how = "Timeout" /\ calls[2].t = 1 /\ calls[2].rps.num = 0
    /\ calls[3].how = "ok" /\ calls[3].c = 25 /\ calls[3].t = 3
    /\ calls[3].rps = Ratio(25, 2)
    /\ ~IsRatio(calls[3].rps, 25 - 3, 3 - 0)

-----------------------------------------------------------------------------
(* What the reported rates add up to.                                      *)

\* counters never going down, clock readings going up, over the whole log
Monotone ==
    \A i \in 2..Len(calls) : calls[i - 1].c <= calls[i].c /\ calls[i - 1].t < calls[i].t

\* rate_i x (t_i - t_(i-1)), as a fraction
Counted(i) == Ratio(calls[i].rps.num * (calls[i].t - calls[i - 1].t), calls[i].rps.den)

\* Counted(2) + ... + Counted(k), as a fraction
RECURSIVE CountedUpTo(_)
CountedUpTo(k) ==
    IF k < 2 THEN Ratio(0, 1)
    ELSE LET s == CountedUpTo(k - 1)
             x == Counted(k)
         IN  Ratio(s.num * x.den + x.num * s.den, s.den * x.den)

-----------------------------------------------------------------------------
(* A state file that is an object with keys missing.                       *)

\* the last call loaded the state file as a JSON object
LoadedObject == outcome # "none" /\ prior_file.kind = "object" /\ load_exc = "none"

EmptyObject == FileOf("object", <<>>, <<>>)

\* C21: on a state file that parses as an object, a missing last_requests
\* counts as 0 and a missing last_time as now, so elapsed is 1.0; on the
\* empty object the call with c >= 0 returns c / 1.0 and leaves the full pair
\* {c, now} in the store.
C21_PartialState ==
    LoadedObject =>
        /\ prior_file.last_requests = <<>> =>
               diff = IF current_requests < 0 THEN 0 ELSE current_requests
        /\ prior_file.last_time = <<>> => elapsed = 1
        /\ (prior_file = EmptyObject /\ current_requests >= 0) =>
               /\ outcome = "returned"
               /\ rps.num = current_requests * rps.den
               /\ rps.den = 1
               /\ state_file = FileOf("object", <<current_requests>>, <<now>>)

\* the store holds {} and the call is made with 3 at time 2
C21_Witness ==
    /\ LoadedObject
    /\ prior_file = EmptyObject
    /\ current_requests = 3
    /\ now = 2
    /\ rps = Ratio(3, 1)
    /\ state_file = FileOf("object", <<3>>, <<2>>)

=============================================================================
